---- MODULE Spec2Model ----
(***************************************************************************)
(* State-machine model of the incremental reconstruction backend:          *)
(*   - VisualOdometry (visual_odometry.py): add / try_remove / run_ba      *)
(*   - PointManager   (points.py): initialize / triangulate                *)
(*   - MatchMatrix    (flow_estimation/keypoints.py): add / matrix         *)
(* Each class has its own specification (Spec, SpecPM, SpecMM); the        *)
(* variables of the other classes stay at their initial values.            *)
(***************************************************************************)
EXTENDS Integers, Sequences, FiniteSets, TLC

\* ------------------------------------------------------------------ bounds
\* Number of frames that may be accepted (viewpoint ids 0 .. MaxFrames-1).
MaxFrames == 3
\* Longest match list a matcher call returns.
MaxMatches == 2
\* max_active_keyframes is drawn from 1 .. MaxActive.
MaxActive == 2

\* The argument the model passes for the caller-supplied threshold of add()
\* (default 8 in the source; scaled down with the frames).
min_keypoints == 1

\* A frame is identified by the number of keypoints extract_keypoints finds
\* in it: 0 .. min_keypoints + 1, so that frames below, at and above the
\* threshold all occur.
Images == 0 .. (min_keypoints + 1)

VARIABLES
    \* VisualOdometry
    max_active_keyframes,   \* constructor argument
    min_matches,            \* constructor argument (default 60 in the source)
    active_viewpoints,      \* KeyframeIndices: insertion-ordered active ids
    next_viewpoint,         \* KeyframeIndices: the id get_next() hands out
    point_keypoint_maps,    \* viewpoint -> (point hash -> keypoint index)
    point_dict,             \* point hash -> point
    kds,                    \* viewpoint -> keypoints/descriptors (their count)
    poses,                  \* viewpoint -> pose
    images,                 \* viewpoint -> image
    n_generated,            \* number of point hashes generated so far
    n_keypoints,            \* len(keypoints) of the frame of the last add()
    ba_viewpoints,          \* viewpoints handed to the last run_ba of this call
    op,                     \* the last call: "new", "add", "try_remove"
    result,                 \* what the last call returned or raised
    \* PointManager
    point_indices,          \* viewpoint -> (keypoint index -> point index)
    points,                 \* sequence of points
    pm_result,              \* what the last PointManager call returned or raised
    \* MatchMatrix
    rows, cols, data,       \* the redundant (row, col, data) triples
    n_rows                  \* number of rows handed out

vo_vars == <<max_active_keyframes, min_matches, active_viewpoints,
             next_viewpoint,
             point_keypoint_maps, point_dict, kds, poses, images, n_generated,
             n_keypoints, ba_viewpoints, op, result>>
pm_vars == <<point_indices, points, pm_result>>
mm_vars == <<rows, cols, data, n_rows>>
vars == <<vo_vars, pm_vars, mm_vars>>

\* ------------------------------------------------------------- helpers
EmptyMap == <<>>

\* numpy boolean-mask indexing a[mask]
RECURSIVE Masked(_, _)
Masked(seq, mask) ==
    IF seq = <<>> THEN <<>>
    ELSE (IF Head(mask) THEN <<Head(seq)>> ELSE <<>>)
         \o Masked(Tail(seq), Tail(mask))

Range(f) == {f[x] : x \in DOMAIN f}

\* The match lists a matcher may return for frames with n0 and n1 keypoints:
\* any sequence of at most MaxMatches index pairs.
MatchLists(n0, n1) ==
    UNION {[1..n -> (0..(n0 - 1)) \X (0..(n1 - 1))] : n \in 0..MaxMatches}

\* Depth-validity outcomes of a batch triangulation of n matches: the
\* depth_mask, aligned with the matches.
DepthMasks(n) == [1..n -> BOOLEAN]

\* --------------------------------------------------- point-keypoint maps
\* point_exists: is some point bound to keypoint `index` in `map`
IsTriangulated(map, index) == \E h \in DOMAIN map : map[h] = index

\* the point hash bound to keypoint `index` (map.inverse[index])
HashAt(map, index) == CHOOSE h \in DOMAIN map : map[h] = index

\* A plain-dict assignment: the mutant of Bind that never reports a conflict.
BindOverwrite(map, h, index) ==
    [ok  |-> TRUE,
     map |-> [g \in DOMAIN map \cup {h} |-> IF g = h THEN index ELSE map[g]]]

\* map[h] = index on a binding table: fails (ConflictError) when a different
\* point is already bound to that keypoint index; rebinding h itself
\* replaces its old index.
Bind(map, h, index) ==
    IF \E g \in DOMAIN map : g # h /\ map[g] = index
    THEN [ok |-> FALSE, map |-> map]
    ELSE [ok  |-> TRUE,
          map |-> [g \in DOMAIN map \cup {h} |->
                      IF g = h THEN index ELSE map[g]]]

\* for h, index in zip(hs, indices): map[h] = index
\* stops at the first conflict, keeping the bindings made before it
RECURSIVE BindAll(_, _, _)
BindAll(map, hs, indices) ==
    IF hs = <<>> \/ indices = <<>> THEN [ok |-> TRUE, map |-> map]
    ELSE LET r == Bind(map, Head(hs), Head(indices))
         IN  IF r.ok THEN BindAll(r.map, Tail(hs), Tail(indices)) ELSE r

\* matches01[:, 0] and matches01[:, 1]
Column0(matches01) == [k \in 1..Len(matches01) |-> matches01[k][1]]
Column1(matches01) == [k \in 1..Len(matches01) |-> matches01[k][2]]

\* generate_hashes(n): n random 18-byte hashes, which never repeat one handed
\* out before; `used` is the number handed out so far
generate_hashes(used, n) == [k \in 1..n |-> used + k]

\* merge_dicts(a, b)
merge_dicts(a, b) ==
    [h \in DOMAIN a \cup DOMAIN b |-> IF h \in DOMAIN b THEN b[h] ELSE a[h]]

\* dict[key] = value
Put(dict, key, value) ==
    [k \in DOMAIN dict \cup {key} |-> IF k = key THEN value ELSE dict[k]]

\* ------------------------------------------------------------ exports
\* sorted(keys) of a dict with integer keys
RECURSIVE SortedKeys(_)
SortedKeys(S) ==
    IF S = {} THEN <<>>
    ELSE LET m == CHOOSE x \in S : \A y \in S : x <= y
         IN  <<m>> \o SortedKeys(S \ {m})

\* export_points: list(point_dict.values()); a dict lists its values in
\* insertion order, which is the order the hashes were generated in
export_points ==
    LET ks == SortedKeys(DOMAIN point_dict)
    IN  [k \in 1..Len(ks) |-> point_dict[ks[k]]]

\* export_poses: the poses by ascending viewpoint id
export_poses ==
    LET ks == SortedKeys(DOMAIN poses)
    IN  [k \in 1..Len(ks) |-> poses[ks[k]]]

n_active_keyframes == Len(active_viewpoints)

\* ------------------------------------------------ point_keypoint_map.py
\* copy_required(map0, map1, indices0, indices1): the pairs whose first
\* keypoint is triangulated in map0 and whose second is not in map1
copy_required(map0, map1, indices0, indices1) ==
    [k \in 1..Len(indices0) |->
        IsTriangulated(map0, indices0[k]) /\ ~IsTriangulated(map1, indices1[k])]

\* accumulate_shareable(map, keypoint_indices): the points bound to them
accumulate_shareable(map, keypoint_indices) ==
    [k \in 1..Len(keypoint_indices) |-> HashAt(map, keypoint_indices[k])]

\* triangulation_required(map0, map1, matches01): neither end triangulated
triangulation_required(map0, map1, matches01) ==
    [k \in 1..Len(matches01) |->
        ~IsTriangulated(map0, matches01[k][1])
        /\ ~IsTriangulated(map1, matches01[k][2])]

\* correspondences(maps, matches): for every match whose first keypoint is
\* triangulated in its viewpoint's map, <<point hash, keypoint index in the
\* new frame>>
RECURSIVE correspondences(_, _)
correspondences(maps, matches) ==
    IF maps = <<>> THEN <<>>
    ELSE LET map0 == Head(maps)
             m    == Head(matches)
             tri  == [k \in 1..Len(m) |-> IsTriangulated(map0, m[k][1])]
             mt   == Masked(m, tri)
         IN  [k \in 1..Len(mt) |-> <<HashAt(map0, mt[k][1]), mt[k][2]>>]
             \o correspondences(Tail(maps), Tail(matches))

\* ------------------------------------------------------ KeyframeIndices
\* get_next(): the next sequential viewpoint id
get_next == next_viewpoint

\* add_new(viewpoint): appended to the active sequence
add_new(indices, viewpoint) == Append(indices, viewpoint)

\* remove(0): the oldest active viewpoint leaves, the others keep their order
remove_oldest(indices) == Tail(indices)

\* ------------------------------------------------------ VisualOdometry
\* What try_init_first_two / try_add_keyframe leave behind: the exception
\* raised ("none" when they return) and the fields they may have written.
Outcome(exc, maps, newposes, dict, used) ==
    [exc |-> exc, maps |-> maps, poses |-> newposes, point_dict |-> dict,
     n_generated |-> used]

\* A raise that comes only after the new viewpoint's pose was stored:
\* the mutant of Raise.
RaiseAfterStore(exc) ==
    Outcome(exc, point_keypoint_maps, Put(poses, next_viewpoint, "estimated"),
            point_dict, n_generated)

\* raise: nothing has been written yet
Raise(exc) == Outcome(exc, point_keypoint_maps, poses, point_dict, n_generated)

\* init_first that also opens an empty binding table for the viewpoint,
\* self.point_keypoint_maps[viewpoint1] = init_point_keypoint_map(): a mutant.
init_first_with_table(viewpoint1) ==
    Outcome("none", Put(point_keypoint_maps, viewpoint1, EmptyMap),
            Put(poses, viewpoint1, "identity"), point_dict, n_generated)

\* init_first(viewpoint1)
init_first(viewpoint1) ==
    Outcome("none", point_keypoint_maps, Put(poses, viewpoint1, "identity"),
            point_dict, n_generated)

\* try_init_first_two that keeps the matches of invalid depth,
\* without matches01 = matches01[depth_mask]: a mutant.
try_init_first_two_keeping_invalid(viewpoint1, matches01, depth_mask) ==
    LET viewpoint0 == active_viewpoints[1]
        hashes     == generate_hashes(n_generated, Len(matches01))
        b0         == BindAll(EmptyMap, hashes, Column0(matches01))
        b1         == BindAll(EmptyMap, hashes, Column1(matches01))
    IN  IF Len(matches01) < min_matches THEN Raise("NotEnoughInliers")
        ELSE IF ~b0.ok \/ ~b1.ok THEN Raise("ConflictError")
        ELSE Outcome("none",
                     Put(Put(point_keypoint_maps, viewpoint0, b0.map),
                         viewpoint1, b1.map),
                     Put(Put(poses, viewpoint0, "identity"),
                         viewpoint1, "estimated"),
                     [h \in Range(hashes) |-> "triangulated"],
                     n_generated + Len(matches01))

\* try_init_first_two(viewpoint1, kd1); matches01 is the matcher's output,
\* depth_mask the validity of each triangulated match.  The two maps and
\* the point dict are built locally and stored only at the end.
try_init_first_two(viewpoint1, matches01, depth_mask) ==
    LET viewpoint0 == active_viewpoints[1]
        valid      == Masked(matches01, depth_mask)
        hashes     == generate_hashes(n_generated, Len(valid))
        b0         == BindAll(EmptyMap, hashes, Column0(valid))
        b1         == BindAll(EmptyMap, hashes, Column1(valid))
    IN  IF Len(matches01) < min_matches THEN Raise("NotEnoughInliers")
        ELSE IF ~b0.ok \/ ~b1.ok THEN Raise("ConflictError")
        ELSE Outcome("none",
                     Put(Put(point_keypoint_maps, viewpoint0, b0.map),
                         viewpoint1, b1.map),
                     Put(Put(poses, viewpoint0, "identity"),
                         viewpoint1, "estimated"),
                     [h \in Range(hashes) |-> "triangulated"],
                     n_generated + Len(valid))

\* Lines 214-228 of try_add_keyframe for the active viewpoint viewpoint0:
\* points known on one side are copied to the other, then the matches that
\* still need triangulation are selected.  acc carries the maps (those of
\* the active viewpoints are written in place) and the new frame's map1.
KeyframeCopy(acc, viewpoint0, matches01) ==
    LET map0     == acc.maps[viewpoint0]
        map1     == acc.map1
        indices0 == Column0(matches01)
        indices1 == Column1(matches01)
        mask01   == copy_required(map0, map1, indices0, indices1)
        mask10   == copy_required(map1, map0, indices1, indices0)
        point_hashes0 == accumulate_shareable(map0, Masked(indices0, mask01))
        point_hashes1 == accumulate_shareable(map1, Masked(indices1, mask10))
        b1       == BindAll(map1, point_hashes0, Masked(indices1, mask01))
        b0       == BindAll(map0, point_hashes1, Masked(indices0, mask10))
    IN  IF ~b1.ok
        THEN [ok |-> FALSE, map0 |-> map0, map1 |-> map1, required |-> <<>>]
        ELSE IF ~b0.ok
        THEN [ok |-> FALSE, map0 |-> b0.map, map1 |-> b1.map,
              required |-> <<>>]
        ELSE [ok |-> TRUE, map0 |-> b0.map, map1 |-> b1.map,
              required |-> Masked(matches01,
                              triangulation_required(b0.map, b1.map,
                                                     matches01))]

\* Lines 230-246: the selected matches are triangulated, those of valid
\* depth get a new point bound in both maps.
KeyframeStep(acc, viewpoint0, matches01, depth_mask) ==
    LET copied == KeyframeCopy(acc, viewpoint0, matches01)
        valid  == Masked(copied.required, depth_mask)
        hashes == generate_hashes(acc.n_generated, Len(valid))
        c0     == BindAll(copied.map0, hashes, Column0(valid))
        c1     == BindAll(copied.map1, hashes, Column1(valid))
    IN  IF ~copied.ok
        THEN [acc EXCEPT !.exc = "ConflictError",
                         !.maps = Put(acc.maps, viewpoint0, copied.map0)]
        ELSE IF ~c0.ok \/ ~c1.ok
        THEN [acc EXCEPT !.exc = "ConflictError",
                         !.maps = Put(acc.maps, viewpoint0, c0.map),
                         !.n_generated = acc.n_generated + Len(valid)]
        ELSE [exc |-> "none",
              maps |-> Put(acc.maps, viewpoint0, c0.map),
              map1 |-> c1.map,
              new_points |-> acc.new_points \cup Range(hashes),
              n_generated |-> acc.n_generated + Len(valid)]

\* for viewpoint0, matches01 in zip(viewpoints, matches): ...
\* The set of results over every depth_mask the triangulations may return.
RECURSIVE KeyframeLoop(_, _, _)
KeyframeLoop(acc, viewpoints, matches) ==
    IF viewpoints = <<>> \/ acc.exc # "none" THEN {acc}
    ELSE LET n == Len(KeyframeCopy(acc, Head(viewpoints),
                                   Head(matches)).required)
         IN  UNION {KeyframeLoop(
                        KeyframeStep(acc, Head(viewpoints), Head(matches),
                                     depth_mask),
                        Tail(viewpoints), Tail(matches))
                    : depth_mask \in DepthMasks(n)}

\* the test of line 193 left out, every active viewpoint is kept: a mutant.
enough_matches_any(active, all_matches) == [k \in 1..Len(active) |-> TRUE]

\* Lines 191-196: which of the active viewpoints are kept, those whose
\* match list has at least min_matches entries
enough_matches(active, all_matches) ==
    [k \in 1..Len(active) |-> Len(all_matches[k]) >= min_matches]

\* try_add_keyframe(viewpoint1, kd1) with `for viewpoint0 in active`: the
\* set of its possible outcomes.  all_matches[k] is the matcher's output
\* for the k-th viewpoint of active, pnp_ok whether solve_pnp finds a pose.
try_add_keyframe_over(active, viewpoint1, all_matches, pnp_ok) ==
    LET enough     == enough_matches(active, all_matches)
        viewpoints == Masked(active, enough)
        matches    == Masked(all_matches, enough)
        maps       == [k \in 1..Len(viewpoints) |->
                          point_keypoint_maps[viewpoints[k]]]
        corr       == correspondences(maps, matches)
        acc0       == [exc |-> "none", maps |-> point_keypoint_maps,
                       map1 |-> EmptyMap, new_points |-> {},
                       n_generated |-> n_generated]
    IN  IF Len(matches) = 0 THEN {Raise("NotEnoughInliers")}
        ELSE IF \E k \in 1..Len(viewpoints) :
                    viewpoints[k] \notin DOMAIN point_keypoint_maps
        THEN {Raise("KeyError")}
        ELSE IF \E k \in 1..Len(corr) : corr[k][1] \notin DOMAIN point_dict
        THEN {Raise("KeyError")}
        ELSE IF Len(corr) = 0 \/ ~pnp_ok THEN {Raise("NotEnoughInliers")}
        ELSE {IF acc.exc # "none"
              THEN Outcome(acc.exc, acc.maps, poses, point_dict,
                           acc.n_generated)
              ELSE Outcome("none",
                           Put(acc.maps, viewpoint1, acc.map1),
                           Put(poses, viewpoint1, "estimated"),
                           merge_dicts(point_dict,
                               [h \in acc.new_points |-> "triangulated"]),
                           acc.n_generated)
              : acc \in KeyframeLoop(acc0, viewpoints, matches)}

\* try_add_keyframe(viewpoint1, kd1): the loop of line 191 goes over
\* self.active_viewpoints, in insertion order
try_add_keyframe(viewpoint1, all_matches, pnp_ok) ==
    try_add_keyframe_over(active_viewpoints, viewpoint1, all_matches, pnp_ok)

\* run_ba that stores a refined pose for every viewpoint of the pose table,
\* not only for those it was handed: a mutant.
run_ba_every_pose(viewpoints, maps, ps, dict, refined) ==
    LET vs           == Range(viewpoints)
        point_hashes == UNION {DOMAIN maps[v] : v \in vs}
    IN  IF \E v \in vs : v \notin DOMAIN maps \/ v \notin DOMAIN ps
        THEN [exc |-> "KeyError", poses |-> ps, point_dict |-> dict]
        ELSE IF \E h \in point_hashes : h \notin DOMAIN dict
        THEN [exc |-> "KeyError", poses |-> ps, point_dict |-> dict]
        ELSE IF point_hashes = {}
        THEN [exc |-> "ValueError", poses |-> ps, point_dict |-> dict]
        ELSE [exc |-> "none",
              poses |-> [v \in DOMAIN ps |->
                            IF refined THEN "refined" ELSE ps[v]],
              point_dict |-> [h \in DOMAIN dict |->
                            IF h \in point_hashes /\ refined
                            THEN "refined" ELSE dict[h]]]

\* run_ba(viewpoints) on the tables as add() has left them; refined says
\* whether try_run_ba returns refined estimates or the ones it was given.
run_ba(viewpoints, maps, ps, dict, refined) ==
    LET vs           == Range(viewpoints)
        point_hashes == UNION {DOMAIN maps[v] : v \in vs}
    IN  IF \E v \in vs : v \notin DOMAIN maps \/ v \notin DOMAIN ps
        THEN [exc |-> "KeyError", poses |-> ps, point_dict |-> dict]
        ELSE IF \E h \in point_hashes : h \notin DOMAIN dict
        THEN [exc |-> "KeyError", poses |-> ps, point_dict |-> dict]
        ELSE IF point_hashes = {}
        THEN [exc |-> "ValueError", poses |-> ps, point_dict |-> dict]
        ELSE [exc |-> "none",
              poses |-> [v \in DOMAIN ps |->
                            IF v \in vs /\ refined THEN "refined" ELSE ps[v]],
              point_dict |-> [h \in DOMAIN dict |->
                            IF h \in point_hashes /\ refined
                            THEN "refined" ELSE dict[h]]]

\* add() with the registration of lines 119-120 moved before the branch,
\* so that it also happens for a frame whose branch raises: the mutant of
\* Finish.
FinishRegisteringFirst(out, viewpoint, image, refined) ==
    IF out.exc # "none"
    THEN /\ point_keypoint_maps' = out.maps
         /\ poses' = out.poses
         /\ point_dict' = out.point_dict
         /\ n_generated' = out.n_generated
         /\ result' = out.exc
         /\ ba_viewpoints' = <<>>
         /\ kds' = Put(kds, viewpoint, image)
         /\ images' = Put(images, viewpoint, image)
         /\ UNCHANGED <<active_viewpoints, next_viewpoint>>
    ELSE LET active == add_new(active_viewpoints, viewpoint)
             ba     == run_ba(active, out.maps, out.poses, out.point_dict,
                              refined)
         IN  /\ kds' = Put(kds, viewpoint, image)
             /\ images' = Put(images, viewpoint, image)
             /\ active_viewpoints' = active
             /\ next_viewpoint' = viewpoint + 1
             /\ point_keypoint_maps' = out.maps
             /\ n_generated' = out.n_generated
             /\ IF Len(active) >= 3
                THEN /\ poses' = ba.poses
                     /\ point_dict' = ba.point_dict
                     /\ ba_viewpoints' = active
                     /\ result' = IF ba.exc = "none" THEN "viewpoint"
                                  ELSE ba.exc
                ELSE /\ poses' = out.poses
                     /\ point_dict' = out.point_dict
                     /\ ba_viewpoints' = <<>>
                     /\ result' = "viewpoint"

\* add() that runs run_ba from two active viewpoints on,
\* len(self.active_viewpoints) >= 2: a mutant of Finish.
FinishBaFromTwo(out, viewpoint, image, refined) ==
    IF out.exc # "none"
    THEN /\ point_keypoint_maps' = out.maps
         /\ poses' = out.poses
         /\ point_dict' = out.point_dict
         /\ n_generated' = out.n_generated
         /\ result' = out.exc
         /\ ba_viewpoints' = <<>>
         /\ UNCHANGED <<kds, images, active_viewpoints, next_viewpoint>>
    ELSE LET active == add_new(active_viewpoints, viewpoint)
             ba     == run_ba(active, out.maps, out.poses, out.point_dict,
                              refined)
         IN  /\ kds' = Put(kds, viewpoint, image)
             /\ images' = Put(images, viewpoint, image)
             /\ active_viewpoints' = active
             /\ next_viewpoint' = viewpoint + 1
             /\ point_keypoint_maps' = out.maps
             /\ n_generated' = out.n_generated
             /\ IF Len(active) >= 2
                THEN /\ poses' = ba.poses
                     /\ point_dict' = ba.point_dict
                     /\ ba_viewpoints' = active
                     /\ result' = IF ba.exc = "none" THEN "viewpoint"
                                  ELSE ba.exc
                ELSE /\ poses' = out.poses
                     /\ point_dict' = out.point_dict
                     /\ ba_viewpoints' = <<>>
                     /\ result' = "viewpoint"

\* The part of add() after the per-state branch (lines 119-125), or the
\* propagation of the exception the branch raised: the frame is registered
\* (kds, images, add_new) and, with three or more active viewpoints,
\* run_ba runs over them.
Finish(out, viewpoint, image, refined) ==
    IF out.exc # "none"
    THEN /\ point_keypoint_maps' = out.maps
         /\ poses' = out.poses
         /\ point_dict' = out.point_dict
         /\ n_generated' = out.n_generated
         /\ result' = out.exc
         /\ ba_viewpoints' = <<>>
         /\ UNCHANGED <<kds, images, active_viewpoints, next_viewpoint>>
    ELSE LET active == add_new(active_viewpoints, viewpoint)
             ba     == run_ba(active, out.maps, out.poses, out.point_dict,
                              refined)
         IN  /\ kds' = Put(kds, viewpoint, image)
             /\ images' = Put(images, viewpoint, image)
             /\ active_viewpoints' = active
             /\ next_viewpoint' = viewpoint + 1
             /\ point_keypoint_maps' = out.maps
             /\ n_generated' = out.n_generated
             /\ IF Len(active) >= 3
                THEN /\ poses' = ba.poses
                     /\ point_dict' = ba.point_dict
                     /\ ba_viewpoints' = active
                     /\ result' = IF ba.exc = "none" THEN "viewpoint"
                                  ELSE ba.exc
                ELSE /\ poses' = out.poses
                     /\ point_dict' = out.point_dict
                     /\ ba_viewpoints' = <<>>
                     /\ result' = "viewpoint"

\* extract_keypoints(image): the number of keypoints found
extract_keypoints(image) == image

\* add(image): too few keypoints, the frame is dropped (returns -1)
AddDropped ==
    /\ next_viewpoint < MaxFrames
    /\ \E image \in Images :
          /\ extract_keypoints(image) <= min_keypoints
          /\ n_keypoints' = extract_keypoints(image)
          /\ op' = "add"
          /\ result' = "dropped"
          /\ ba_viewpoints' = <<>>
          /\ UNCHANGED <<max_active_keyframes, min_matches, active_viewpoints,
                         next_viewpoint, point_keypoint_maps, point_dict,
                         kds, poses, images, n_generated>>
    /\ UNCHANGED <<pm_vars, mm_vars>>

\* add(image) with no active viewpoint: init_first
AddFirst ==
    /\ next_viewpoint < MaxFrames
    /\ Len(active_viewpoints) = 0
    /\ \E image \in Images :
          /\ extract_keypoints(image) > min_keypoints
          /\ n_keypoints' = extract_keypoints(image)
          /\ Finish(init_first(get_next), get_next, image, FALSE)
    /\ op' = "add"
    /\ UNCHANGED <<max_active_keyframes, min_matches, pm_vars, mm_vars>>

\* add(image) with one active viewpoint: try_init_first_two
AddSecond ==
    /\ next_viewpoint < MaxFrames
    /\ Len(active_viewpoints) = 1
    /\ \E image \in Images :
          /\ extract_keypoints(image) > min_keypoints
          /\ n_keypoints' = extract_keypoints(image)
          /\ \E matches01 \in MatchLists(kds[active_viewpoints[1]],
                                         extract_keypoints(image)) :
                \E depth_mask \in DepthMasks(Len(matches01)) :
                   Finish(try_init_first_two(get_next, matches01,
                                             depth_mask),
                          get_next, image, FALSE)
    /\ op' = "add"
    /\ UNCHANGED <<max_active_keyframes, min_matches, pm_vars, mm_vars>>

\* The matcher's outputs for the frame against every active viewpoint.
AllMatches(image) ==
    {all_matches \in [1..Len(active_viewpoints) ->
                         MatchLists(min_keypoints + 1,
                                    extract_keypoints(image))] :
        \A k \in 1..Len(active_viewpoints) :
           \A j \in 1..Len(all_matches[k]) :
              all_matches[k][j][1] < kds[active_viewpoints[k]]}

\* add(image) with two or more active viewpoints: try_add_keyframe
AddKeyframe ==
    /\ next_viewpoint < MaxFrames
    /\ Len(active_viewpoints) >= 2
    /\ \E image \in Images :
          /\ extract_keypoints(image) > min_keypoints
          /\ n_keypoints' = extract_keypoints(image)
          /\ \E all_matches \in AllMatches(image), pnp_ok \in BOOLEAN :
                \E out \in try_add_keyframe(get_next, all_matches, pnp_ok),
                   refined \in BOOLEAN :
                   Finish(out, get_next, image, refined)
    /\ op' = "add"
    /\ UNCHANGED <<max_active_keyframes, min_matches, pm_vars, mm_vars>>

\* What every try_remove leaves alone in the mutants below and in the model.
TryRemoveFrame ==
    /\ op' = "try_remove"
    /\ ba_viewpoints' = <<>>
    /\ UNCHANGED <<max_active_keyframes, min_matches, next_viewpoint,
                   point_dict, kds,
                   images, n_generated, n_keypoints>>
    /\ UNCHANGED <<pm_vars, mm_vars>>

\* try_remove with the comparison < in place of <=: a mutant.
try_remove_lt ==
    /\ TryRemoveFrame
    /\ IF n_active_keyframes < max_active_keyframes
       THEN /\ result' = "False"
            /\ UNCHANGED active_viewpoints
       ELSE /\ result' = "True"
            /\ active_viewpoints' = remove_oldest(active_viewpoints)
    /\ UNCHANGED <<point_keypoint_maps, poses>>

\* try_remove that removes the newest viewpoint, remove(-1): a mutant.
try_remove_newest ==
    /\ TryRemoveFrame
    /\ IF n_active_keyframes <= max_active_keyframes
       THEN /\ result' = "False"
            /\ UNCHANGED active_viewpoints
       ELSE /\ result' = "True"
            /\ active_viewpoints' =
                  SubSeq(active_viewpoints, 1, Len(active_viewpoints) - 1)
    /\ UNCHANGED <<point_keypoint_maps, poses>>

\* try_remove that also deletes the removed viewpoint's binding table,
\* del point_keypoint_maps[viewpoint]: a mutant.
try_remove_pruning ==
    /\ TryRemoveFrame
    /\ IF n_active_keyframes <= max_active_keyframes
       THEN /\ result' = "False"
            /\ UNCHANGED <<active_viewpoints, point_keypoint_maps>>
       ELSE /\ result' = "True"
            /\ active_viewpoints' = remove_oldest(active_viewpoints)
            /\ point_keypoint_maps' =
                  [v \in DOMAIN point_keypoint_maps \ {active_viewpoints[1]}
                      |-> point_keypoint_maps[v]]
    /\ UNCHANGED poses

\* try_remove that also deletes the removed viewpoint's pose,
\* del poses[viewpoint]: a mutant.
try_remove_forgetting_pose ==
    /\ TryRemoveFrame
    /\ IF n_active_keyframes <= max_active_keyframes
       THEN /\ result' = "False"
            /\ UNCHANGED <<active_viewpoints, poses>>
       ELSE /\ result' = "True"
            /\ active_viewpoints' = remove_oldest(active_viewpoints)
            /\ poses' = [v \in DOMAIN poses \ {active_viewpoints[1]}
                            |-> poses[v]]
    /\ UNCHANGED point_keypoint_maps

\* try_remove(): the oldest active viewpoint is removed when the window
\* holds more than max_active_keyframes; nothing else is written
try_remove ==
    /\ TryRemoveFrame
    /\ IF n_active_keyframes <= max_active_keyframes
       THEN /\ result' = "False"
            /\ UNCHANGED active_viewpoints
       ELSE /\ result' = "True"
            /\ active_viewpoints' = remove_oldest(active_viewpoints)
    /\ UNCHANGED <<point_keypoint_maps, poses>>

\* The other classes' objects, untouched in this specification.
InitPM ==
    /\ point_indices = <<>>
    /\ points = <<>>
    /\ pm_result = "new"

InitMM ==
    /\ rows = <<>>
    /\ cols = <<>>
    /\ data = <<>>
    /\ n_rows = 0

\* VisualOdometry.__init__
InitVO ==
    /\ max_active_keyframes \in 1..MaxActive
    /\ min_matches \in 1..MaxMatches
    /\ active_viewpoints = <<>>
    /\ next_viewpoint = 0
    /\ point_keypoint_maps = <<>>
    /\ point_dict = <<>>
    /\ kds = <<>>
    /\ poses = <<>>
    /\ images = <<>>
    /\ n_generated = 0
    /\ n_keypoints = 0
    /\ ba_viewpoints = <<>>
    /\ op = "new"
    /\ result = "new"

Init == InitVO /\ InitPM /\ InitMM

Next == AddDropped \/ AddFirst \/ AddSecond \/ AddKeyframe \/ try_remove

Spec == Init /\ [][Next]_vars

\* ========================================================= PointManager
\* Bound on the points made before a further call is explored.
MaxPoints == 3

\* The viewpoint ids PointManager and MatchMatrix are called with.
Viewpoints == {0, 1, 2}

\* add_point_(point): appends, the new point's index is the old length
\* add_point(point, viewpoint0, viewpoint1, keypoint_index0, keypoint_index1)
\* on the pair <<point_indices, points>>; point_indices is a defaultdict, a
\* viewpoint's table appears with its first entry
PutIndex(pi, viewpoint, keypoint_index, point_index) ==
    Put(pi, viewpoint,
        Put(IF viewpoint \in DOMAIN pi THEN pi[viewpoint] ELSE <<>>,
            keypoint_index, point_index))

\* add_point that numbers the points from one (the length after the point
\* is stacked, not before): a mutant.
add_point_from_one(pm, viewpoint0, viewpoint1, keypoint_index0, keypoint_index1) ==
    LET point_index == Len(pm.points) + 1
    IN  [pm EXCEPT
            !.points = Append(pm.points, "point"),
            !.point_indices =
                PutIndex(PutIndex(pm.point_indices, viewpoint0,
                                  keypoint_index0, point_index),
                         viewpoint1, keypoint_index1, point_index)]

\* add_point that binds the new point in viewpoint0 only: a mutant.
add_point_one_sided(pm, viewpoint0, viewpoint1, keypoint_index0, keypoint_index1) ==
    LET point_index == Len(pm.points)
    IN  [pm EXCEPT
            !.points = Append(pm.points, "point"),
            !.point_indices =
                PutIndex(pm.point_indices, viewpoint0,
                         keypoint_index0, point_index)]

add_point(pm, viewpoint0, viewpoint1, keypoint_index0, keypoint_index1) ==
    LET point_index == Len(pm.points)
    IN  [pm EXCEPT
            !.points = Append(pm.points, "point"),
            !.point_indices =
                PutIndex(PutIndex(pm.point_indices, viewpoint0,
                                  keypoint_index0, point_index),
                         viewpoint1, keypoint_index1, point_index)]

\* associate_existing(src_viewpoint, dst_viewpoint, src_keypoint_index,
\*                    dst_keypoint_index)
associate_existing(pm, src_viewpoint, dst_viewpoint, src_index, dst_index) ==
    LET point_index == pm.point_indices[src_viewpoint][src_index]
    IN  [pm EXCEPT !.point_indices =
            PutIndex(pm.point_indices, dst_viewpoint, dst_index, point_index)]

\* the keys of point_indices[viewpoint] (a live view of the table)
KeypointsOf(pm, viewpoint) ==
    IF viewpoint \in DOMAIN pm.point_indices
    THEN DOMAIN pm.point_indices[viewpoint] ELSE {}

\* warn_if_incorrect_match(point_index0, point_index1): the body names
\* `warnings`, which the module never imports, so a mismatch raises
\* NameError instead of warning
warn_if_incorrect_match(point_index0, point_index1) ==
    IF point_index0 # point_index1 THEN "NameError" ELSE "ok"

\* both_observed: the loop over zip(indices0, indices1); depth[k] says
\* whether triangulating the k-th pair gives a point (None otherwise)
RECURSIVE both_observed(_, _, _, _, _)
both_observed(pm, viewpoint0, viewpoint1, matches, depth) ==
    IF matches = <<>> \/ pm.exc # "ok" THEN pm
    ELSE LET index0 == Head(matches)[1]
             index1 == Head(matches)[2]
             is_triangulated0 == index0 \in KeypointsOf(pm, viewpoint0)
             is_triangulated1 == index1 \in KeypointsOf(pm, viewpoint1)
             next ==
                IF is_triangulated0 /\ is_triangulated1
                THEN [pm EXCEPT !.exc = warn_if_incorrect_match(
                                  pm.point_indices[viewpoint0][index0],
                                  pm.point_indices[viewpoint1][index1])]
                ELSE IF is_triangulated0
                THEN associate_existing(pm, viewpoint0, viewpoint1,
                                        index0, index1)
                ELSE IF is_triangulated1
                THEN associate_existing(pm, viewpoint1, viewpoint0,
                                        index1, index0)
                ELSE IF ~Head(depth) THEN pm
                ELSE add_point(pm, viewpoint0, viewpoint1, index0, index1)
         IN  both_observed(next, viewpoint0, viewpoint1,
                           Tail(matches), Tail(depth))

\* either_one_observed: src_viewpoint has been observed, dst_viewpoint not;
\* matches are <<src index, dst index>>
RECURSIVE either_one_observed(_, _, _, _, _)
either_one_observed(pm, src_viewpoint, dst_viewpoint, matches, depth) ==
    IF matches = <<>> THEN pm
    ELSE LET src_index == Head(matches)[1]
             dst_index == Head(matches)[2]
             next ==
                IF src_index \in KeypointsOf(pm, src_viewpoint)
                THEN associate_existing(pm, src_viewpoint, dst_viewpoint,
                                        src_index, dst_index)
                ELSE IF ~Head(depth) THEN pm
                ELSE add_point(pm, src_viewpoint, dst_viewpoint,
                               src_index, dst_index)
         IN  either_one_observed(next, src_viewpoint, dst_viewpoint,
                                 Tail(matches), Tail(depth))

\* matches01 with its columns swapped
Swapped(matches01) ==
    [k \in 1..Len(matches01) |-> <<matches01[k][2], matches01[k][1]>>]

\* triangulate(pose0, pose1, keypoints0, keypoints1, matches01,
\*             viewpoint0, viewpoint1)
triangulate(pm, matches01, viewpoint0, viewpoint1, depth) ==
    LET has_observed0 == viewpoint0 \in DOMAIN pm.point_indices
        has_observed1 == viewpoint1 \in DOMAIN pm.point_indices
    IN  IF has_observed0 /\ has_observed1
        THEN both_observed(pm, viewpoint0, viewpoint1, matches01, depth)
        ELSE IF has_observed0
        THEN either_one_observed(pm, viewpoint0, viewpoint1, matches01, depth)
        ELSE IF has_observed1
        THEN either_one_observed(pm, viewpoint1, viewpoint0,
                                 Swapped(matches01), depth)
        ELSE [pm EXCEPT !.exc = "ValueError"]

\* for point, (index0, index1) in zip(points, valid_matches01): add_point
RECURSIVE AddPoints(_, _, _, _)
AddPoints(pm, valid_matches01, viewpoint0, viewpoint1) ==
    IF valid_matches01 = <<>> THEN pm
    ELSE AddPoints(add_point(pm, viewpoint0, viewpoint1,
                             Head(valid_matches01)[1],
                             Head(valid_matches01)[2]),
                   Tail(valid_matches01), viewpoint0, viewpoint1)

\* initialize(keypoints0, keypoints1, matches01, viewpoint0, viewpoint1);
\* depth marks the matches pose_point_from_keypoints keeps as valid
initialize(pm, matches01, viewpoint0, viewpoint1, depth) ==
    IF DOMAIN pm.point_indices # {}
    THEN [pm EXCEPT !.exc = "AssertionError"]
    ELSE AddPoints(pm, Masked(matches01, depth), viewpoint0, viewpoint1)

ThePointManager ==
    [point_indices |-> point_indices, points |-> points, exc |-> "ok"]

PMCall(after) ==
    /\ point_indices' = after.point_indices
    /\ points' = after.points
    /\ pm_result' = after.exc
    /\ UNCHANGED <<vo_vars, mm_vars>>

PMInitialize ==
    /\ Len(points) < MaxPoints
    /\ \E viewpoint0 \in Viewpoints, viewpoint1 \in Viewpoints :
          /\ viewpoint0 # viewpoint1
          /\ \E matches01 \in MatchLists(min_keypoints + 1,
                                         min_keypoints + 1) :
                \E depth \in DepthMasks(Len(matches01)) :
                   PMCall(initialize(ThePointManager, matches01,
                                     viewpoint0, viewpoint1, depth))

PMTriangulate ==
    /\ Len(points) < MaxPoints
    /\ \E viewpoint0 \in Viewpoints, viewpoint1 \in Viewpoints :
          /\ viewpoint0 # viewpoint1
          /\ \E matches01 \in MatchLists(min_keypoints + 1,
                                         min_keypoints + 1) :
                \E depth \in DepthMasks(Len(matches01)) :
                   PMCall(triangulate(ThePointManager, matches01,
                                      viewpoint0, viewpoint1, depth))

InitVOIdle ==
    /\ max_active_keyframes = 1
    /\ min_matches = 1
    /\ active_viewpoints = <<>>
    /\ next_viewpoint = 0
    /\ point_keypoint_maps = <<>>
    /\ point_dict = <<>>
    /\ kds = <<>>
    /\ poses = <<>>
    /\ images = <<>>
    /\ n_generated = 0
    /\ n_keypoints = 0
    /\ ba_viewpoints = <<>>
    /\ op = "new"
    /\ result = "new"

NextPM == PMInitialize \/ PMTriangulate

PMInit == InitVOIdle /\ InitPM /\ InitMM

SpecPM == PMInit /\ [][NextPM]_vars

\* ========================================================== MatchMatrix
\* Bound on the number of match edges (rows) added to a MatchMatrix.
MaxEdges == 3

\* rows[rows == r] = r0
Relabel(rws, r, r0) == [k \in DOMAIN rws |-> IF rws[k] = r THEN r0 ELSE rws[k]]

\* for r in rows_[1:]: rows[rows == r] = rows_[0]
RECURSIVE MergeRows(_, _, _)
MergeRows(rws, rest, r0) ==
    IF rest = <<>> THEN rws
    ELSE MergeRows(Relabel(rws, Head(rest), r0), Tail(rest), r0)

\* One round of the loop of reduce_along that moves only the entries of
\* the column itself to the first row, not the whole rows.
ReduceUniqueColumnOnly(rws, cls, dat, column, u) ==
    LET mask  == [k \in 1..Len(rws) |-> cls[k] = column /\ dat[k] = u]
        rows_ == Masked(rws, mask)
    IN  [k \in DOMAIN rws |-> IF mask[k] THEN rows_[1] ELSE rws[k]]

\* One round of the loop of reduce_along, for the unique element u:
\* the rows holding u in the column are moved to the first of them.
ReduceUnique(rws, cls, dat, column, u) ==
    LET mask  == [k \in 1..Len(rws) |-> cls[k] = column /\ dat[k] = u]
        rows_ == Masked(rws, mask)
    IN  MergeRows(rws, Tail(rows_), Head(rows_))

\* reduce_along(rows, column): over np.unique(data[cols == column]),
\* ascending
RECURSIVE ReduceOver(_, _, _, _, _)
ReduceOver(rws, cls, dat, column, us) ==
    IF us = {} THEN rws
    ELSE LET u == CHOOSE x \in us : \A y \in us : x <= y
         IN  ReduceOver(ReduceUnique(rws, cls, dat, column, u),
                        cls, dat, column, us \ {u})

reduce_along(rws, cls, dat, column) ==
    ReduceOver(rws, cls, dat, column,
               {dat[k] : k \in {j \in 1..Len(dat) : cls[j] = column}})

\* for j in range(0, n_cols): rows = reduce_along(rows, j)
RECURSIVE ReduceColumns(_, _, _, _, _)
ReduceColumns(rws, cls, dat, j, n_cols) ==
    IF j >= n_cols THEN rws
    ELSE ReduceColumns(reduce_along(rws, cls, dat, j), cls, dat, j + 1, n_cols)

\* np.max of a non-empty array
Max(seq) == CHOOSE x \in Range(seq) : \A y \in Range(seq) : y <= x

\* reduce_redundancy with the last column left out,
\* n_cols = np.max(cols): a mutant.
reduce_redundancy_short(rws, cls, dat) ==
    ReduceColumns(rws, cls, dat, 0, Max(cls))

\* reduce_redundancy(rows, cols, data): the new rows (cols and data are
\* returned as they came)
reduce_redundancy(rws, cls, dat) ==
    ReduceColumns(rws, cls, dat, 0, Max(cls) + 1)

\* MatchMatrix.add(viewpoint1, viewpoint2, matches) on a MatchMatrix record
MatchMatrix_add(mm, viewpoint1, viewpoint2, matches) ==
    LET n_matches == Len(matches)
    IN  [rows |-> mm.rows \o [k \in 1..(2 * n_matches) |->
                                 mm.n_rows + ((k - 1) \div 2)],
         cols |-> mm.cols \o [k \in 1..(2 * n_matches) |->
                                 IF k % 2 = 1 THEN viewpoint1
                                 ELSE viewpoint2],
         data |-> mm.data \o [k \in 1..(2 * n_matches) |->
                                 matches[(k + 1) \div 2][2 - (k % 2)]],
         n_rows |-> mm.n_rows + n_matches]

EmptyMatchMatrix == [rows |-> <<>>, cols |-> <<>>, data |-> <<>>, n_rows |-> 0]

TheMatchMatrix == [rows |-> rows, cols |-> cols, data |-> data, n_rows |-> n_rows]

\* The tracks of a reduced matrix: the sets of (view, keypoint)
\* observations that carry the same row.
Tracks(rws, cls, dat) ==
    {{<<cls[k], dat[k]>> : k \in {j \in 1..Len(rws) : rws[j] = r}}
        : r \in Range(rws)}

\* the tracks MatchMatrix.matrix() resolves
ResolvedTracks(mm) ==
    Tracks(reduce_redundancy(mm.rows, mm.cols, mm.data), mm.cols, mm.data)

MMAdd ==
    /\ \E viewpoint1 \in Viewpoints, viewpoint2 \in Viewpoints :
          /\ viewpoint1 < viewpoint2
          /\ \E matches \in MatchLists(min_keypoints + 1, min_keypoints + 1) :
                /\ Len(matches) > 0
                /\ n_rows + Len(matches) <= MaxEdges
                /\ LET after == MatchMatrix_add(TheMatchMatrix, viewpoint1,
                                                viewpoint2, matches)
                   IN  /\ rows' = after.rows
                       /\ cols' = after.cols
                       /\ data' = after.data
                       /\ n_rows' = after.n_rows
    /\ UNCHANGED <<vo_vars, pm_vars>>

MMInit == InitVOIdle /\ InitPM /\ InitMM

SpecMM == MMInit /\ [][MMAdd]_vars

\* ------------------------------------------------------------ C10
\* the e-th edge added: <<view1, keypoint1, view2, keypoint2>>
EdgeAt(mm, e) ==
    <<mm.cols[2 * e - 1], mm.data[2 * e - 1], mm.cols[2 * e], mm.data[2 * e]>>

\* a MatchMatrix to which the edges are added one by one, in order
RECURSIVE AddInOrder(_, _)
AddInOrder(mm, es) ==
    IF es = <<>> THEN mm
    ELSE AddInOrder(MatchMatrix_add(mm, Head(es)[1], Head(es)[3],
                                    <<<<Head(es)[2], Head(es)[4]>>>>),
                    Tail(es))

\* C10: match-set resolution is order independent: adding the same edges
\* in any permuted order makes reduce_redundancy resolve the same partition
\* of the (view, keypoint) observations into tracks.
C10_OrderIndependent ==
    n_rows > 0 =>
        \A p \in Permutations(1..n_rows) :
            ResolvedTracks(AddInOrder(EmptyMatchMatrix,
                [k \in 1..n_rows |-> EdgeAt(TheMatchMatrix, p[k])]))
            = ResolvedTracks(TheMatchMatrix)

\* C10 witness: three edges were added and the reduction merged some of
\* them through a chain (a track of three or more observations).
C10_Witness ==
    /\ n_rows = 3
    /\ \E t \in ResolvedTracks(TheMatchMatrix) : Cardinality(t) >= 3
    /\ Cardinality(ResolvedTracks(TheMatchMatrix)) = 2

\* ------------------------------------------------------------ C2
\* C2: a landmark (point index) is bound to at most one keypoint index
\* within any single viewpoint.
C2_OneKeypointPerPoint ==
    \A v \in DOMAIN point_indices :
        \A i \in DOMAIN point_indices[v], j \in DOMAIN point_indices[v] :
            i # j => point_indices[v][i] # point_indices[v][j]

C3_Atomicity ==
    [][(op' = "add" /\ result' = "NotEnoughInliers")
          => /\ export_points' = export_points
             /\ export_poses' = export_poses]_vars

\* C3 witness: a frame failed with NotEnoughInliers while tracking, with
\* landmarks and poses on record.
C3_Witness ==
    /\ op = "add"
    /\ result = "NotEnoughInliers"
    /\ Len(active_viewpoints) >= 2
    /\ Len(export_points) >= 1
    /\ Len(export_poses) >= 2

\* C4: a frame dropped by add(), for too few keypoints or NotEnoughInliers,
\* is neither partly bound nor partly registered: the active sequence, every
\* binding table and the stored keypoint and image tables are unchanged,
\* and a failed second frame leaves exactly one active keyframe.
C4_NoPartialRegistration ==
    [][(op' = "add" /\ result' \in {"dropped", "NotEnoughInliers"})
          => /\ UNCHANGED <<active_viewpoints, point_keypoint_maps, kds,
                            images, next_viewpoint>>
             /\ (Len(active_viewpoints) = 1 => Len(active_viewpoints') = 1)
      ]_vars

\* C4 witness: the second frame failed with NotEnoughInliers and the window
\* still holds the one keyframe.
C4_Witness ==
    /\ op = "add"
    /\ result = "NotEnoughInliers"
    /\ Len(active_viewpoints) = 1
    /\ DOMAIN kds = {active_viewpoints[1]}

C6_EvictOldest ==
    [][op' = "try_remove"
          => IF n_active_keyframes > max_active_keyframes
             THEN /\ result' = "True"
                  /\ Len(active_viewpoints') = Len(active_viewpoints) - 1
                  /\ \A k \in 1..Len(active_viewpoints') :
                        /\ active_viewpoints'[k] = active_viewpoints[k + 1]
                        /\ active_viewpoints[1] < active_viewpoints'[k]
             ELSE /\ result' = "False"
                  /\ active_viewpoints' = active_viewpoints
      ]_vars

\* C6 witness: a try_remove() evicted from a window of three, two remain.
C6_Witness ==
    /\ op = "try_remove"
    /\ result = "True"
    /\ Len(active_viewpoints) = 2
    /\ max_active_keyframes = 2

C8_LandmarksSurvive ==
    [][DOMAIN point_dict \subseteq DOMAIN point_dict']_vars

\* C9: export_poses() returns one pose for every viewpoint ever added,
\* evicted ones included, by ascending viewpoint id.
C9_AllPosesExported ==
    /\ DOMAIN poses = 0..(next_viewpoint - 1)
    /\ Len(export_poses) = next_viewpoint
    /\ \A k \in 1..Len(export_poses) : export_poses[k] = poses[k - 1]

\* C9 witness: a viewpoint has been evicted and its pose is still exported.
C9_Witness ==
    /\ op = "try_remove"
    /\ result = "True"
    /\ Len(export_poses) = 3
    /\ Len(active_viewpoints) < 3

\* ------------------------------------------------------------ C11
\* Two entries of the redundant form are directly linked when they come
\* from the same added match (the same row as handed out by add) or are
\* the same (view, keypoint) observation.
Linked(mm, k, j) ==
    \/ mm.rows[k] = mm.rows[j]
    \/ (mm.cols[k] = mm.cols[j] /\ mm.data[k] = mm.data[j])

\* the entries reachable from those of S by a chain of links
RECURSIVE Chained(_, _)
Chained(mm, S) ==
    LET T == S \cup {j \in 1..Len(mm.rows) : \E k \in S : Linked(mm, k, j)}
    IN  IF T = S THEN S ELSE Chained(mm, T)

\* the MatchMatrix of the doc comment: add is called 4 times
DocExample ==
    MatchMatrix_add(
        MatchMatrix_add(
            MatchMatrix_add(
                MatchMatrix_add(EmptyMatchMatrix, 0, 1, <<<<0, 0>>, <<1, 2>>>>),
                0, 2, <<<<1, 0>>, <<3, 1>>>>),
            1, 2, <<<<1, 2>>>>),
        1, 3, <<<<2, 1>>, <<1, 2>>>>)

\* the compact representation of the doc comment, row by row, as sets of
\* <<view, keypoint>>
DocCompact ==
    {{<<0, 0>>, <<1, 0>>},
     {<<0, 1>>, <<1, 2>>, <<2, 0>>, <<3, 1>>},
     {<<0, 3>>, <<2, 1>>},
     {<<1, 1>>, <<2, 2>>, <<3, 2>>}}

\* C11: reduce_redundancy computes the transitive closure of the match
\* edges: after the reduction two entries carry the same row id if and
\* only if a chain of added matches connects them; the 7 redundant rows of
\* the documented example reduce to its 4 compact rows.
C11_TransitiveClosure ==
    /\ n_rows > 0 =>
          LET reduced == reduce_redundancy(rows, cols, data)
          IN  \A k \in 1..Len(rows), j \in 1..Len(rows) :
                 (reduced[k] = reduced[j]) <=> (j \in Chained(TheMatchMatrix, {k}))
    /\ DocExample.n_rows = 7
    /\ ResolvedTracks(DocExample) = DocCompact

\* C11 witness: three matches between three different pairs of views were
\* chained into one track of four observations.
C11_Witness ==
    /\ n_rows = 3
    /\ Cardinality(ResolvedTracks(TheMatchMatrix)) = 1
    /\ \E t \in ResolvedTracks(TheMatchMatrix) : Cardinality(t) = 4
    /\ Cardinality({<<cols[2 * e - 1], cols[2 * e]>> : e \in 1..3}) = 3

\* ------------------------------------------------------------ C12
\* C12: a match that pairs two triangulated observations bound to different
\* landmarks is reported and skipped without failing the frame: no error
\* propagates to the caller of triangulate.
C12_ConflictSkipped == pm_result \notin {"NameError"}

\* ------------------------------------------------------------ C13
\* C13: add() drops a frame for insufficient keypoints exactly when its
\* keypoint count is below the minimum: fewer than min_keypoints keypoints
\* are rejected, min_keypoints or more are not rejected for this reason.
C13_DropBelowMinimum ==
    op = "add" => ((result = "dropped") <=> (n_keypoints < min_keypoints))

\* ------------------------------------------------------------ C14
\* The outcome `out` of a branch of add() is what the step has stored.
Stored(out) ==
    /\ out.exc = "none"
    /\ point_keypoint_maps' = out.maps
    /\ n_generated' = out.n_generated
    /\ (Len(active_viewpoints') < 3 =>
           poses' = out.poses /\ point_dict' = out.point_dict)

\* C14: a successful bootstrap sets the reference viewpoint's pose to
\* identity, discards the matches of invalid depth, creates exactly one
\* landmark per remaining match and binds both endpoints of the match to
\* it: both viewpoints' binding tables have the same landmark ids, as many
\* as there are valid matches.  Stated for every matcher output and depth
\* mask that the accepted second frame may have had.
C14_Bootstrap ==
    [][(op' = "add" /\ result' = "viewpoint" /\ Len(active_viewpoints) = 1)
          => \A matches01 \in MatchLists(kds[active_viewpoints[1]],
                                         n_keypoints') :
             \A depth_mask \in DepthMasks(Len(matches01)) :
                Stored(try_init_first_two(next_viewpoint, matches01,
                                          depth_mask))
                => LET viewpoint0 == active_viewpoints[1]
                       viewpoint1 == next_viewpoint
                       map0  == point_keypoint_maps'[viewpoint0]
                       map1  == point_keypoint_maps'[viewpoint1]
                       valid == {k \in 1..Len(matches01) : depth_mask[k]}
                   IN  /\ poses'[viewpoint0] = "identity"
                       /\ DOMAIN map0 = DOMAIN map1
                       /\ DOMAIN point_dict' \ DOMAIN point_dict = DOMAIN map0
                       /\ Cardinality(DOMAIN map0) = Cardinality(valid)
                       /\ \A k \in valid :
                             \E h \in DOMAIN map0 :
                                /\ map0[h] = matches01[k][1]
                                /\ map1[h] = matches01[k][2]
      ]_vars

\* C14 witness: the second frame was accepted and the bootstrap has bound
\* two landmarks in both viewpoints.
C14_Witness ==
    /\ op = "add"
    /\ result = "viewpoint"
    /\ active_viewpoints = <<0, 1>>
    /\ poses[0] = "identity"
    /\ Cardinality(DOMAIN point_keypoint_maps[0]) = 2
    /\ DOMAIN point_keypoint_maps[0] = DOMAIN point_keypoint_maps[1]

\* ------------------------------------------------------------ C15
\* C15: the first accepted frame is stored as the reference viewpoint with
\* the identity pose; nothing is matched, no landmark and no binding is
\* created, and the active window then has exactly one member.
C15_FirstFrame ==
    [][(op' = "add" /\ result' = "viewpoint" /\ Len(active_viewpoints) = 0)
          => /\ active_viewpoints' = <<next_viewpoint>>
             /\ poses' = Put(poses, next_viewpoint, "identity")
             /\ DOMAIN kds' = {next_viewpoint}
             /\ DOMAIN images' = {next_viewpoint}
             /\ point_dict' = <<>>
             /\ point_keypoint_maps' = <<>>
             /\ n_generated' = 0
             /\ ba_viewpoints' = <<>>
      ]_vars

\* C15 witness: the first frame has been accepted.
C15_Witness ==
    /\ op = "add"
    /\ result = "viewpoint"
    /\ active_viewpoints = <<0>>
    /\ next_viewpoint = 1
    /\ poses[0] = "identity"
    /\ DOMAIN point_dict = {}

\* ------------------------------------------------------------ C16
\* C16: bundle adjustment is invoked at the end of a successful add() if and
\* only if the active window then has at least 3 viewpoints, it runs over
\* exactly the active viewpoints, and it is never invoked for a dropped
\* frame.
C16_BundleAdjustment ==
    [][op' = "add"
          => /\ result' = "viewpoint"
                   => ba_viewpoints' = IF Len(active_viewpoints') >= 3
                                       THEN active_viewpoints' ELSE <<>>
             /\ result' \in {"dropped", "NotEnoughInliers"}
                   => ba_viewpoints' = <<>>
      ]_vars

\* C16 witness: the third frame was accepted and run_ba ran over the three
\* active viewpoints and refined the estimates.
C16_Witness ==
    /\ op = "add"
    /\ result = "viewpoint"
    /\ ba_viewpoints = <<0, 1, 2>>
    /\ active_viewpoints = <<0, 1, 2>>
    /\ poses[2] = "refined"

\* ------------------------------------------------------------ C17
\* The PointManager as triangulate leaves it after the first k pairs of
\* matches01: the loops of both_observed and either_one_observed take the
\* pairs one by one.
AfterPairs(matches01, viewpoint0, viewpoint1, depth, k) ==
    triangulate(ThePointManager, SubSeq(matches01, 1, k),
                viewpoint0, viewpoint1, SubSeq(depth, 1, k))

\* the point bound to a keypoint of a viewpoint, -1 when there is none
PointAt(pm, viewpoint, index) ==
    IF index \in KeypointsOf(pm, viewpoint)
    THEN pm.point_indices[viewpoint][index] ELSE -1

\* the calls of triangulate explored: viewpoints, match list, depths
TriangulateCalls ==
    {c \in [viewpoint0 : Viewpoints, viewpoint1 : Viewpoints,
            matches01 : MatchLists(min_keypoints + 1, min_keypoints + 1),
            depth : UNION {DepthMasks(n) : n \in 0..MaxMatches}] :
        /\ c.viewpoint0 # c.viewpoint1
        /\ Len(c.depth) = Len(c.matches01)}

\* C17: when a pair of a match list comes up with exactly one endpoint
\* triangulated, the other endpoint is bound to that endpoint's landmark and
\* no landmark is created, whichever of the two viewpoints holds the
\* triangulated endpoint.
C17_PureAssociation ==
    \A c \in TriangulateCalls : \A k \in 1..Len(c.matches01) :
        LET before == AfterPairs(c.matches01, c.viewpoint0, c.viewpoint1,
                                 c.depth, k - 1)
            after  == AfterPairs(c.matches01, c.viewpoint0, c.viewpoint1,
                                 c.depth, k)
            index0 == c.matches01[k][1]
            index1 == c.matches01[k][2]
            point0 == PointAt(before, c.viewpoint0, index0)
            point1 == PointAt(before, c.viewpoint1, index1)
        IN  (before.exc = "ok" /\ ((point0 = -1) # (point1 = -1)))
            => /\ after.exc = "ok"
               /\ Len(after.points) = Len(before.points)
               /\ PointAt(after, c.viewpoint0, index0) =
                     (IF point0 = -1 THEN point1 ELSE point0)
               /\ PointAt(after, c.viewpoint1, index1) =
                     (IF point0 = -1 THEN point1 ELSE point0)

BoundTracks(maps) ==
    {{<<v, maps[v][h]>> : v \in {w \in DOMAIN maps : h \in DOMAIN maps[w]}}
        : h \in UNION {DOMAIN maps[v] : v \in DOMAIN maps}}

\* what try_add_keyframe may end with when the active viewpoints and their
\* match lists are taken in the order p
KeyframeResults(all_matches, p) ==
    {<<out.exc, BoundTracks(out.maps)>> :
        out \in try_add_keyframe_over(
                    [k \in 1..Len(p) |-> active_viewpoints[p[k]]],
                    next_viewpoint,
                    [k \in 1..Len(p) |-> all_matches[p[k]]],
                    TRUE)}

\* C19: within one add() while tracking, the assignment of observations to
\* landmarks does not depend on the order in which the active viewpoints'
\* match lists are processed.
C19_BatchOrderIndependent ==
    Len(active_viewpoints) >= 2
        => \A all_matches \in AllMatches(min_keypoints + 1) :
           \A p \in Permutations(1..Len(active_viewpoints)) :
              KeyframeResults(all_matches, p)
                 = KeyframeResults(all_matches,
                                   [k \in 1..Len(active_viewpoints) |-> k])

\* ------------------------------------------------------------ C20
\* the match lists with those shorter than min_matches replaced by no
\* matches at all
WithoutShortLists(all_matches) ==
    [k \in DOMAIN all_matches |->
        IF Len(all_matches[k]) < min_matches THEN <<>> ELSE all_matches[k]]

\* no match of a kept list has its first keypoint triangulated: nothing to
\* estimate the pose from
NoCorrespondence(all_matches) ==
    \A k \in DOMAIN all_matches :
        Len(all_matches[k]) >= min_matches
            => \A j \in 1..Len(all_matches[k]) :
                  ~IsTriangulated(point_keypoint_maps[active_viewpoints[k]],
                                  all_matches[k][j][1])

\* C20: while tracking, an active viewpoint whose match list has fewer than
\* min_matches entries is skipped entirely: the add() goes as if it had no
\* match at all and its binding table is unchanged; the frame fails with
\* NotEnoughInliers exactly when every active viewpoint is skipped or the
\* pose solve fails.  Stated for every frame that may come next.
C20_SkipShortLists ==
    (Len(active_viewpoints) >= 2 /\ next_viewpoint < MaxFrames
        /\ \A v \in Range(active_viewpoints) : v \in DOMAIN point_keypoint_maps)
    => \A all_matches \in AllMatches(min_keypoints + 1), pnp_ok \in BOOLEAN :
          LET outs    == try_add_keyframe(next_viewpoint, all_matches, pnp_ok)
              skipped == {k \in DOMAIN all_matches :
                             Len(all_matches[k]) < min_matches}
              all     == skipped = DOMAIN all_matches
          IN  /\ outs = try_add_keyframe(next_viewpoint,
                                         WithoutShortLists(all_matches),
                                         pnp_ok)
              /\ \A out \in outs :
                    /\ \A k \in skipped :
                          out.maps[active_viewpoints[k]]
                             = point_keypoint_maps[active_viewpoints[k]]
                    /\ out.exc = "NotEnoughInliers"
                          => (all \/ ~pnp_ok \/ NoCorrespondence(all_matches))
                    /\ all => out.exc = "NotEnoughInliers"
                    /\ (~pnp_ok /\ out.exc # "KeyError")
                          => out.exc = "NotEnoughInliers"

\* C20 witness: two viewpoints are active, min_matches is 2, and a frame
\* may come whose list against the first has one match (skipped) and whose
\* list against the second has two: it is accepted, changes the second
\* viewpoint's table and leaves the first one's as it is.
C20_Witness ==
    /\ Len(active_viewpoints) = 2
    /\ min_matches = 2
    /\ next_viewpoint < MaxFrames
    /\ \E all_matches \in AllMatches(min_keypoints + 1) :
          /\ Len(all_matches[1]) = 1
          /\ Len(all_matches[2]) = 2
          /\ \E out \in try_add_keyframe(next_viewpoint, all_matches, TRUE) :
                /\ out.exc = "none"
                /\ out.maps[active_viewpoints[1]]
                      = point_keypoint_maps[active_viewpoints[1]]
                /\ out.maps[active_viewpoints[2]]
                      # point_keypoint_maps[active_viewpoints[2]]

\* ------------------------------------------------------------ C21
\* The fields of the VisualOdometry after a call run_ba(viewpoints) in the
\* current state: run_ba assigns to entries of self.point_dict and
\* self.poses only (lines 149-153).
RunBaCall(viewpoints, refined) ==
    LET ba == run_ba(viewpoints, point_keypoint_maps, poses, point_dict,
                     refined)
    IN  [exc |-> ba.exc, poses |-> ba.poses, point_dict |-> ba.point_dict,
         point_keypoint_maps |-> point_keypoint_maps,
         active_viewpoints |-> active_viewpoints]

\* the sequences of viewpoints run_ba is called with: the active window
\* and its contiguous parts
BaViewpoints ==
    {SubSeq(active_viewpoints, i, j) :
        i \in 1..Len(active_viewpoints), j \in 1..Len(active_viewpoints)}
    \ {<<>>}

\* C21: run_ba only replaces values: it adds or removes no landmark id and
\* no viewpoint of the pose table, changes no binding table and not the
\* active window, and updates only the poses of the viewpoints passed in
\* and only landmarks bound in one of those viewpoints' binding tables.
C21_RunBaReplacesOnly ==
    \A viewpoints \in BaViewpoints, refined \in BOOLEAN :
        LET after == RunBaCall(viewpoints, refined)
            bound == UNION {DOMAIN point_keypoint_maps[v] :
                               v \in Range(viewpoints)
                                        \cap DOMAIN point_keypoint_maps}
        IN  /\ DOMAIN after.point_dict = DOMAIN point_dict
            /\ DOMAIN after.poses = DOMAIN poses
            /\ after.point_keypoint_maps = point_keypoint_maps
            /\ after.active_viewpoints = active_viewpoints
            /\ \A v \in DOMAIN poses :
                  v \notin Range(viewpoints) => after.poses[v] = poses[v]
            /\ \A h \in DOMAIN point_dict :
                  h \notin bound => after.point_dict[h] = point_dict[h]
            /\ after.exc # "none"
                  => after.poses = poses /\ after.point_dict = point_dict

\* C21 witness: run_ba has run over the three active viewpoints at the end
\* of an add() and refined their poses and a landmark.
C21_Witness ==
    /\ op = "add"
    /\ result = "viewpoint"
    /\ ba_viewpoints = active_viewpoints
    /\ Len(active_viewpoints) = 3
    /\ \A v \in Range(active_viewpoints) : poses[v] = "refined"
    /\ \E h \in DOMAIN point_dict : point_dict[h] = "refined"

\* ------------------------------------------------------------ C22
\* No viewpoint has been evicted: every viewpoint add() registered is
\* still in the active window, so the state was reached by add() calls.
OnlyAdds == Len(active_viewpoints) = next_viewpoint

\* the landmark ids bound in some viewpoint's binding table
BoundHashes == UNION {DOMAIN point_keypoint_maps[v] : v \in DOMAIN point_keypoint_maps}

NaN == -1

\* to_matrix(rows, cols, data): matrix[rows, cols] = data writes one value
\* per entry. numpy fixes no order for entries that share a cell: last
\* says whether the last or the first of them is the one that stays. The
\* rows with only nan are removed. Row r is the element r + 1 of the
\* sequence, a row is a function of the column.
to_matrix(rws, cls, dat, last) ==
    LET n_rows_ == Max(rws) + 1
        n_cols  == Max(cls) + 1
        Cell(r, c) ==
            LET ks == {k \in 1..Len(rws) : rws[k] = r /\ cls[k] = c}
            IN  IF ks = {} THEN NaN
                ELSE IF last
                THEN dat[CHOOSE k \in ks : \A j \in ks : j <= k]
                ELSE dat[CHOOSE k \in ks : \A j \in ks : k <= j]
        matrix == [i \in 1..n_rows_ |->
                      [c \in 0..(n_cols - 1) |-> Cell(i - 1, c)]]
        mask   == [i \in 1..n_rows_ |->
                      ~(\A c \in 0..(n_cols - 1) : matrix[i][c] = NaN)]
    IN  Masked(matrix, mask)

\* MatchMatrix.matrix()
MatchMatrix_matrix(mm, last) ==
    to_matrix(reduce_redundancy(mm.rows, mm.cols, mm.data), mm.cols, mm.data,
              last)

\* C23: matrix() loses no observation: after any sequence of add calls,
\* every (view, keypoint) endpoint that was added is held by some row of
\* the output matrix in that view's column.
C23_NoObservationLost ==
    Len(rows) > 0 =>
        \A last \in BOOLEAN :
           LET matrix == MatchMatrix_matrix(TheMatchMatrix, last)
           IN  \A k \in 1..Len(rows) :
                  \E i \in 1..Len(matrix) : matrix[i][cols[k]] = data[k]

\* ------------------------------------------------------------ C24
\* A direct call add_point(point, viewpoint0, viewpoint1, keypoint_index0,
\* keypoint_index1), with any arguments.
PMAddPoint ==
    /\ Len(points) < MaxPoints
    /\ \E viewpoint0 \in Viewpoints, viewpoint1 \in Viewpoints :
          \E keypoint_index0 \in 0..min_keypoints,
             keypoint_index1 \in 0..min_keypoints :
             PMCall(add_point(ThePointManager, viewpoint0, viewpoint1,
                              keypoint_index0, keypoint_index1))

\* A direct call associate_existing(src_viewpoint, dst_viewpoint,
\* src_keypoint_index, dst_keypoint_index), with any arguments. With the
\* source keypoint unbound the lookup of line 60 raises KeyError, after
\* the defaultdict has made an empty table for src_viewpoint.
PMAssociateExisting ==
    \E src_viewpoint \in Viewpoints, dst_viewpoint \in Viewpoints :
       \E src_index \in 0..min_keypoints, dst_index \in 0..min_keypoints :
          IF src_index \in KeypointsOf(ThePointManager, src_viewpoint)
          THEN PMCall(associate_existing(ThePointManager, src_viewpoint,
                                         dst_viewpoint, src_index, dst_index))
          ELSE PMCall([ThePointManager EXCEPT
                          !.exc = "KeyError",
                          !.point_indices =
                              IF src_viewpoint \in DOMAIN point_indices
                              THEN point_indices
                              ELSE Put(point_indices, src_viewpoint,
                                       EmptyMap)])

NextPMCalls == PMAddPoint \/ PMAssociateExisting \/ PMInitialize \/ PMTriangulate

SpecPMCalls == PMInit /\ [][NextPMCalls]_vars

\* the point indices stored in a table {viewpoint: {keypoint: point index}}
StoredIndices(pi) == UNION {Range(pi[v]) : v \in DOMAIN pi}

\* C24: over any sequence of PointManager calls, every point index stored
\* in point_indices is a valid index into points, the points a call adds
\* get the next indices len(points), len(points) + 1, ... in order, and
\* the points already there keep their index: points only grows at its
\* end, and an index that newly appears in the table is that of a point
\* added by the call.
C24_PointIndices ==
    [][/\ StoredIndices(point_indices') \subseteq 0..(Len(points') - 1)
       /\ Len(points') >= Len(points)
       /\ SubSeq(points', 1, Len(points)) = points
       /\ StoredIndices(point_indices') \ StoredIndices(point_indices)
             \subseteq Len(points)..(Len(points') - 1)]_vars

\* C24 witness: three points have been added, each of the indices 0, 1, 2
\* is stored, and associate_existing has copied the index 0 so that it is
\* bound in three viewpoints.
C24_Witness ==
    /\ pm_result = "ok"
    /\ Len(points) = 3
    /\ StoredIndices(point_indices) = {0, 1, 2}
    /\ \A v \in Viewpoints :
          v \in DOMAIN point_indices /\ 0 \in Range(point_indices[v])

====
